---- MODULE Spec2Model ----
(***************************************************************************)
(* Model of the pump.fun sniper pipeline (rust/src): the filter engine,    *)
(* the sliding-window rate limiter, the balance and blockhash caches, the  *)
(* dispatch fan-out and the main loop that ties them together.             *)
(*                                                                         *)
(* Pure functions of the code are operators; the objects' fields are the   *)
(* variables.  Several specifications share the variables: Spec is the     *)
(* whole pipeline, the others drive one object with every input of a       *)
(* bounded set (SpecLimiter, SpecBalance, SpecCache, SpecFilter,           *)
(* SpecDispatch, SpecBuilder, SpecSubscribers).                            *)
(***************************************************************************)
EXTENDS Integers, Sequences, FiniteSets, TLC

VARIABLES
    config,        \* Config: immutable after start-up (config.rs:48-61)
    seen_mints,    \* SniperState.seen_mints (state.rs:130)
    counts,        \* DevRateLimiter.counts: developer -> Vec<Instant> (state.rs:60)
    now,           \* the monotonic clock read by Instant::now() (state.rs:66)
    balance,       \* BalanceCache.balance (state.rs:75)
    blockhash,     \* BlockhashCache.inner: None or the cached hash (state.rs:14)
    notifier,      \* BlockhashCache.notifier: the watch channel's value (state.rs:15)
    bhPc,          \* position of the blockhash refresher task (state.rs:46-54)
    balPc,         \* position of the balance refresher task (main.rs:37-42)
    queue,         \* the unbounded event channel (events/mod.rs:35)
    mainPc,        \* position of the main loop (main.rs:52-64)
    event,         \* the event handle_event is working on (main.rs:73)
    spend,         \* spend_lamports of the current event (main.rs:99)
    inner,         \* select_ok's list of unresolved paths (dispatch.rs:24-43)
    pathState,     \* per path: idle, pending, or finished ok/err but not yet polled
    procState,     \* running, or how main returned (main.rs:61-64)
    tx,            \* the transaction being dispatched (main.rs:100)
    produced,      \* number of events the subscribers have sent so far
    limParams,     \* SpecLimiter: the (limit, window) every call passes
    \* history variables: what the operations returned, for the properties
    calls,         \* the is_allowed calls made so far: developer, time, result
    balHist,       \* the last set, the debits requested since, the last operation
                   \* (in Spec: the balance handle_event read, and its spend)
    filt,          \* the last apply_filters call: its inputs and its verdict
    allowed,       \* per mint, the number of Allowed verdicts so far
    resolved,      \* the paths select_ok has resolved, in order, with their results
    result,        \* what the last dispatch_transaction returned
    updater,       \* update()'s local hash, and the updates started and returned
    reader,        \* what one reader of the blockhash cache has observed
    pushed,        \* the events sent into the queue so far, in order
    handled,       \* the events receiver.recv() has returned so far, in order
    subs           \* the subscriber tasks: position, backoff, and the receiver

vars == <<config, seen_mints, counts, now, balance, blockhash, notifier, bhPc,
          balPc, queue, mainPc, event, spend, inner, pathState, procState, tx,
          produced, limParams, calls, balHist, filt, allowed, resolved, result,
          updater, reader, pushed, handled, subs>>

subVars == <<pushed, handled, subs>>

----------------------------------------------------------------------------
(* Bounds of the model *)

\* last value of the clock in SpecLimiter (one tick = one time unit)
MaxTime == 4
\* number of is_allowed calls SpecLimiter records
MaxCalls == 4
\* largest limit L and window W SpecLimiter passes to is_allowed
MaxLimit == 2
MaxWindow == 2
\* largest lamport amount SpecBalance sets or debits
MaxAmount == 3
\* number of debits SpecBalance issues after one set
MaxDebits == 3
\* number of blockhashes the RPC hands out
MaxHash == 3
\* number of events the subscribers send, and the queue length, in Spec
MaxEvents == 2
\* Spec's clock advances TickStep seconds at a time, up to MaxClock
TickStep == 61
MaxClock == 61
\* the balance the chain reports to the balance refresher, besides 0
MaxBalance == 4
\* number of connection failures of each subscriber in SpecSubscribers
MaxFailures == 21

Devs == {"D1", "D2"}
Mints == {"M1", "M2"}

\* Option<T>: None is the empty sequence, Some(v) the sequence <<v>>
None == <<>>
Some(v) == <<v>>
unwrap_or(o, d) == IF o = None THEN d ELSE o[1]

Max(a, b) == IF a >= b THEN a ELSE b
Min(a, b) == IF a <= b THEN a ELSE b

----------------------------------------------------------------------------
(* DevRateLimiter (state.rs:58-71) *)

\* Instant::duration_since saturates at zero
duration_since(t, ts) == IF t >= ts THEN t - ts ELSE 0

retain_strict(entry, t, window) ==
    SelectSeq(entry, LAMBDA ts : duration_since(t, ts) < window)

\* entry.retain(|ts| now.duration_since(*ts) <= window)
retain(entry, t, window) ==
    SelectSeq(entry, LAMBDA ts : duration_since(t, ts) <= window)

\* the developer's entry after the call: retain, then push(now)
is_allowed_entry(entry, t, window) == Append(retain(entry, t, window), t)

\* a variant that compares the length before the push
is_allowed_before_push(entry, t, limit, window) ==
    Len(retain(entry, t, window)) <= limit

\* the call's result: entry.len() as u32 <= limit
is_allowed(entry, t, limit, window) ==
    Len(is_allowed_entry(entry, t, window)) <= limit

----------------------------------------------------------------------------
(* BalanceCache (state.rs:73-99) *)

\* BalanceCache::new(0) in SniperState::new
InitialBalance == 0

current(b) == b

set(b, new_value) == new_value

debit_saturating(b, lamports) == IF b >= lamports THEN b - lamports ELSE 0

debit_unchecked(b, lamports) == b - lamports

\* if *balance >= lamports { *balance -= lamports; }
debit(b, lamports) == IF b >= lamports THEN b - lamports ELSE b

\* a variant of the match on dispatch's result that debits on Err too
on_dispatch_result_always(b, ok, spend_lamports) == debit(b, spend_lamports)

\* a variant of the match on dispatch's result that never debits
on_dispatch_result_never(b, ok, spend_lamports) == b

\* handle_event's match on dispatch_transaction's result (main.rs:110-116):
\* Ok debits spend_lamports, Err only logs
on_dispatch_result(b, ok, spend_lamports) ==
    IF ok THEN debit(b, spend_lamports) ELSE b

\* SniperState::refresh_balance: rpc is Some(lamports), or None for Err
refresh_balance(b, rpc) == IF rpc = None THEN b ELSE set(b, rpc[1])

----------------------------------------------------------------------------
(* BlockhashCache (state.rs:12-56).  The k-th hash the RPC returns is the   *)
(* number k, so that "older" and "later" are the order of installation.    *)

\* self.inner.read().clone()
latest(cached) == cached

\* a receiver's borrow(): the value the watch channel holds
borrow(channel) == channel

\* *self.inner.write() = Some(hash)
update_inner(cached, hash) == Some(hash)

\* self.notifier.send_replace(Some(hash))
send_replace(channel, hash) == Some(hash)

\* a variant of the updater's match that stores the RPC result as it is
on_blockhash_result_stored(cached, rpc) == rpc

\* the match in spawn_updater: Ok(hash) begins update(hash), Err only logs;
\* rpc is Some(hash), or None for Err
on_blockhash_result(cached, rpc) ==
    IF rpc = None THEN cached ELSE update_inner(cached, rpc[1])

\* position of an Option<Hash> in the order of installation
rank(o) == IF o = None THEN 0 ELSE o[1]

----------------------------------------------------------------------------
(* FilterState (state.rs:101-124) and apply_filters (filters.rs) *)

\* the window apply_filters passes: Duration::from_secs(60)
Window == 60
\* dev_max_tokens_per_min.unwrap_or(10)
DefaultMaxPerMin == 10

is_whitelisted_strict(whitelist, developer) == developer \in whitelist

\* self.whitelist.is_empty() || self.whitelist.contains(developer)
is_whitelisted(whitelist, developer) ==
    whitelist = {} \/ developer \in whitelist

\* self.blacklist.contains(developer)
is_blacklisted(blacklist, developer) == developer \in blacklist

max_per_minute(cfg) == unwrap_or(cfg.dev_max_tokens_per_min, DefaultMaxPerMin)

\* the rate-limiter step of apply_filters (filters.rs:27-36)
rate_limit_step(ev, cfg, cnts, t) ==
    [decision |-> IF is_allowed(cnts[ev.developer], t, max_per_minute(cfg), Window)
                  THEN "Allowed" ELSE "RateLimited",
     counts |-> [cnts EXCEPT ![ev.developer] = is_allowed_entry(@, t, Window)]]

\* a variant that consults the whitelist before the blacklist
apply_filters_whitelist_first(ev, cfg, seen, cnts, t) ==
    IF ev.mint \in seen THEN [decision |-> "Duplicate", counts |-> cnts]
    ELSE IF cfg.whitelist # {} /\ ev.developer \in cfg.whitelist
         THEN rate_limit_step(ev, cfg, cnts, t)
    ELSE IF is_blacklisted(cfg.blacklist, ev.developer)
         THEN [decision |-> "Blacklisted", counts |-> cnts]
    ELSE IF ~is_whitelisted(cfg.whitelist, ev.developer)
         THEN [decision |-> "NotWhitelisted", counts |-> cnts]
    ELSE rate_limit_step(ev, cfg, cnts, t)

\* a variant that checks the blacklist before the seen mints
apply_filters_blacklist_first(ev, cfg, seen, cnts, t) ==
    IF is_blacklisted(cfg.blacklist, ev.developer)
         THEN [decision |-> "Blacklisted", counts |-> cnts]
    ELSE IF ev.mint \in seen THEN [decision |-> "Duplicate", counts |-> cnts]
    ELSE IF ~is_whitelisted(cfg.whitelist, ev.developer)
         THEN [decision |-> "NotWhitelisted", counts |-> cnts]
    ELSE rate_limit_step(ev, cfg, cnts, t)

\* a variant without the check of the seen mints
apply_filters_unseen(ev, cfg, seen, cnts, t) ==
    IF is_blacklisted(cfg.blacklist, ev.developer)
         THEN [decision |-> "Blacklisted", counts |-> cnts]
    ELSE IF ~is_whitelisted(cfg.whitelist, ev.developer)
         THEN [decision |-> "NotWhitelisted", counts |-> cnts]
    ELSE rate_limit_step(ev, cfg, cnts, t)

\* apply_filters(event, config, state): the verdict, and the rate limiter's map
\* after the call (is_allowed is reached only past the first three checks)
apply_filters(ev, cfg, seen, cnts, t) ==
    IF ev.mint \in seen THEN [decision |-> "Duplicate", counts |-> cnts]
    ELSE IF is_blacklisted(cfg.blacklist, ev.developer)
         THEN [decision |-> "Blacklisted", counts |-> cnts]
    ELSE IF ~is_whitelisted(cfg.whitelist, ev.developer)
         THEN [decision |-> "NotWhitelisted", counts |-> cnts]
    ELSE rate_limit_step(ev, cfg, cnts, t)

seen_insert_skipped(seen, mint) == seen

\* a variant that forgets the mints inserted before
seen_insert_replacing(seen, mint) == {mint}

\* state.seen_mints.insert(event.mint)
seen_insert(seen, mint) == seen \cup {mint}

----------------------------------------------------------------------------
(* Config::compute_buy_amount (config.rs:99-114).  The f64 of a strategy is *)
(* the rational num/den, den > 0.                                          *)

\* sol_to_lamports: 1 SOL = 10^9 lamports
LamportsPerSol == 1000000000

compute_buy_amount(cfg, cached_balance) ==
    LET s == cfg.purchase_strategy IN
    IF s.kind = "fixed_sol"
    THEN IF s.num <= 0
         THEN [ok |-> FALSE, v |-> 0]
         ELSE [ok |-> TRUE, v |-> (s.num * LamportsPerSol) \div s.den]
    ELSE IF s.num < 0 \/ s.num > s.den
         THEN [ok |-> FALSE, v |-> 0]
         ELSE [ok |-> TRUE, v |-> (cached_balance * s.num) \div s.den]

\* Config::dry_run: self.dry_run.unwrap_or(false)
dry_run(cfg) == unwrap_or(cfg.dry_run, FALSE)

----------------------------------------------------------------------------
(* TransactionBuilder (builder.rs).  A public key is its name; an           *)
(* instruction is its program id, its account metas and its data bytes.    *)

\* the payer's key, and the programs the instructions name
Payer == "Payer"
SystemProgram == "SystemProgram"
TokenProgram == "TokenkegQfeZyiNwAJbNbGKPFXCWuBvf9Ss623VQ5DA"
AtaProgram == "ATokenGPvbdGVxr1b2hvZbsiqW5xWH25efTNsLJA8knL"
ComputeBudgetProgram == "ComputeBudget"
PumpFunProgram == "PumpFun"

\* Pubkey::to_bytes: the 32 bytes of a key, different for different keys
to_bytes(pubkey) == [i \in 1..32 |-> IF pubkey = "D1" THEN i ELSE 256 - i]

\* the first k bytes of n, least significant first
RECURSIVE le_bytes(_, _)
le_bytes(n, k) == IF k = 0 THEN <<>> ELSE <<n % 256>> \o le_bytes(n \div 256, k - 1)

\* the first k bytes of n, most significant first
RECURSIVE be_bytes(_, _)
be_bytes(n, k) == IF k = 0 THEN <<>> ELSE be_bytes(n \div 256, k - 1) \o <<n % 256>>

\* u64::to_le_bytes
to_le_bytes(n) == le_bytes(n, 8)

\* AccountMeta::new (writable) and AccountMeta::new_readonly
AccountMeta_new(pubkey, is_signer) ==
    [pubkey |-> pubkey, is_signer |-> is_signer, is_writable |-> TRUE]
AccountMeta_new_readonly(pubkey, is_signer) ==
    [pubkey |-> pubkey, is_signer |-> is_signer, is_writable |-> FALSE]

\* ComputeBudgetInstruction::set_compute_unit_price: tag 3, then the price
set_compute_unit_price(micro_lamports) ==
    [program_id |-> ComputeBudgetProgram, accounts |-> <<>>,
     data |-> <<3>> \o to_le_bytes(micro_lamports)]

\* Pubkey::find_program_address with the seeds [payer, token_program, mint]
find_program_address(owner, token_program, mint) == <<"ata", owner, mint>>

\* create_associated_token_account (builder.rs:81-108)
create_associated_token_account(mint) ==
    [program_id |-> AtaProgram,
     accounts |-> << AccountMeta_new(Payer, TRUE),
                     AccountMeta_new(
                         find_program_address(Payer, TokenProgram, mint), FALSE),
                     AccountMeta_new_readonly(Payer, FALSE),
                     AccountMeta_new_readonly(mint, FALSE),
                     AccountMeta_new_readonly(SystemProgram, FALSE),
                     AccountMeta_new_readonly(TokenProgram, FALSE) >>,
     data |-> <<>>]

\* a variant that writes the lamports most significant byte first
pump_fun_buy_instruction_be(ev, lamports) ==
    [program_id |-> PumpFunProgram,
     accounts |-> << AccountMeta_new(ev.mint, FALSE),
                     AccountMeta_new(Payer, TRUE),
                     AccountMeta_new_readonly(SystemProgram, FALSE) >>,
     data |-> be_bytes(lamports, 8) \o to_bytes(ev.developer)]

\* pump_fun_buy_instruction (builder.rs:64-79)
pump_fun_buy_instruction(ev, lamports) ==
    [program_id |-> PumpFunProgram,
     accounts |-> << AccountMeta_new(ev.mint, FALSE),
                     AccountMeta_new(Payer, TRUE),
                     AccountMeta_new_readonly(SystemProgram, FALSE) >>,
     data |-> to_le_bytes(lamports) \o to_bytes(ev.developer)]

\* the instructions build_buy_transaction collects (builder.rs:48-57)
instructions(ev, lamports, cfg) ==
    (IF cfg.priority_fee_lamports # None
     THEN <<set_compute_unit_price(cfg.priority_fee_lamports[1])>> ELSE <<>>)
    \o <<create_associated_token_account(ev.mint)>>
    \o <<pump_fun_buy_instruction(ev, lamports)>>

\* Message::new(&instructions, Some(&payer)) and Transaction::new(&[payer],
\* message, blockhash): the instructions in their order, the fee payer, the
\* recent blockhash and the signer
Transaction_new(instrs, recent_blockhash) ==
    [instructions |-> instrs, payer |-> Payer,
     recent_blockhash |-> recent_blockhash, signers |-> <<Payer>>]

\* a variant that signs with the default hash when the cache is empty
build_buy_transaction_default_hash(ev, lamports, cached, cfg) ==
    Some(Transaction_new(instructions(ev, lamports, cfg), rank(latest(cached))))

\* build_buy_transaction (builder.rs:38-62): None when the cache is empty
build_buy_transaction(ev, lamports, cached, cfg) ==
    IF latest(cached) = None
    THEN None
    ELSE Some(Transaction_new(instructions(ev, lamports, cfg),
                              latest(cached)[1]))

----------------------------------------------------------------------------
(* dispatch_transaction (dispatch.rs:15-47) *)

\* the futures pushed, in order: primary RPC always, the others when configured
launched(cfg) ==
    <<"rpc">> \o (IF cfg.jito_api_url # None THEN <<"jito">> ELSE <<>>)
             \o (IF cfg.nozomi_rpc_url # None THEN <<"nozomi">> ELSE <<>>)

remove(list, i) == SubSeq(list, 1, i - 1) \o SubSeq(list, i + 1, Len(list))

first_ready(list, st) ==
    LET ready == {i \in 1..Len(list) : st[list[i]] \in {"ok", "err"}}
    IN  IF ready = {} THEN 0 ELSE CHOOSE i \in ready : \A j \in ready : i <= j

\* a variant that returns the first completion, success or not
select_first(list, st, log) ==
    LET i == first_ready(list, st) IN
    IF i = 0
    THEN [status |-> "pending", who |-> "none", inner |-> list, log |-> log]
    ELSE [status |-> st[list[i]], who |-> list[i], inner |-> remove(list, i),
          log |-> Append(log, [path |-> list[i], res |-> st[list[i]]])]

\* a variant that resolves nothing before every future is ready
select_all(list, st, log) ==
    LET i == first_ready(list, st)
        oks == {j \in 1..Len(list) : st[list[j]] = "ok"}
    IN  IF i = 0 \/ \E j \in 1..Len(list) : st[list[j]] = "pending"
        THEN [status |-> "pending", who |-> "none", inner |-> list, log |-> log]
        ELSE IF oks # {}
        THEN LET k == CHOOSE j \in oks : \A h \in oks : j <= h
             IN  [status |-> "ok", who |-> list[k], inner |-> remove(list, k),
                  log |-> Append(log, [path |-> list[k], res |-> "ok"])]
        ELSE [status |-> "err", who |-> list[Len(list)], inner |-> <<>>,
              log |-> Append(log, [path |-> list[Len(list)], res |-> "err"])]

\* one poll of futures::future::select_ok: take the first ready future in list
\* order and remove it; Ok ends the poll with its value, Err ends it only when
\* the list is empty, otherwise look again.  log gets the resolved futures.
RECURSIVE select_ok(_, _, _)
select_ok(list, st, log) ==
    LET i == first_ready(list, st) IN
    IF i = 0
    THEN [status |-> "pending", who |-> "none", inner |-> list, log |-> log]
    ELSE LET p == list[i]
             rest == remove(list, i)
             log2 == Append(log, [path |-> p, res |-> st[p]])
         IN  IF st[p] = "ok"
             THEN [status |-> "ok", who |-> p, inner |-> rest, log |-> log2]
             ELSE IF rest = <<>>
             THEN [status |-> "err", who |-> p, inner |-> rest, log |-> log2]
             ELSE select_ok(rest, st, log2)

----------------------------------------------------------------------------
(* The event queue (events/mod.rs:35) and the subscribers (websocket.rs,    *)
(* laserstream.rs).  Durations are in milliseconds.                        *)

\* a variant that puts the event in front of those waiting
send_front(q, ev) == <<ev>> \o q

\* UnboundedSender::send on an open channel
send(q, ev) == Append(q, ev)

\* UnboundedReceiver::recv with an event waiting: the event, and the rest
recv(q) == [event |-> Head(q), rest |-> Tail(q)]

at_recv_any(pc) == pc \in {"recv", "build", "dispatch"}

\* main is at receiver.recv().await: the loop comes back to it only when
\* handle_event(...).await of the event before has returned (main.rs:52-62)
at_recv(pc) == pc = "recv"

\* websocket.rs:30 and :91
WsSeed == 500
WsStep == 500
WsBackoffMax == 5000
\* laserstream.rs:10 and :23
LsSeed == 250
LsStep == 250
LsBackoffMax == 5000
\* laserstream.rs:18: the sleep after a successful connect
LsConnectedSleep == 5000

\* a variant that starts again from the step once the cap is reached
next_backoff_wrapping(backoff, step, cap) ==
    IF backoff + step > cap THEN step ELSE backoff + step

\* backoff = (backoff + step).min(cap)
next_backoff(backoff, step, cap) == Min(backoff + step, cap)

\* the messages the socket yields that are neither an event sent nor the
\* end of the connection, and those that end the inner loop
WsIgnoredKinds == {"undecodable", "binary", "pong", "frame", "ping"}
WsBreakKinds == {"close", "error", "end"}

\* a variant in which a socket error ends the task
on_message_fatal(kind, sent) ==
    IF kind = "text" THEN (IF sent THEN "connected" ELSE "exited")
    ELSE IF kind = "error" THEN "exited"
    ELSE IF kind \in WsBreakKinds THEN "sleep"
    ELSE "connected"

\* where websocket::run is after a message (websocket.rs:61-85): a parsed
\* text whose send failed returns Ok(()), Close, Err and the end of the
\* stream leave the inner loop for the sleep, anything else reads on
on_message(kind, sent) ==
    IF kind = "text" THEN (IF sent THEN "connected" ELSE "exited")
    ELSE IF kind \in WsBreakKinds THEN "sleep"
    ELSE "connected"

\* Channel::from_shared(endpoint) accepts the endpoint
valid_uri(endpoint) == endpoint # Some("not a uri")

----------------------------------------------------------------------------
(* The state after construction (main.rs:23-48) *)

\* a config with no optional key set
BaseConfig ==
    [whitelist |-> {}, blacklist |-> {}, dev_max_tokens_per_min |-> None,
     purchase_strategy |-> [kind |-> "percent_balance", num |-> 1, den |-> 2],
     dry_run |-> None, jito_api_url |-> None, nozomi_rpc_url |-> None,
     priority_fee_lamports |-> None,
     ws_url |-> Some("ws"), laserstream_grpc_url |-> None]

\* EventSupervisor::start: the channel, and one task per configured
\* endpoint, each with a sender; the sender of an endpoint that is not
\* configured is dropped when start returns (events/mod.rs:34-58)
start(cfg) ==
    [ws |-> [pc |-> IF cfg.ws_url # None THEN "connect" ELSE "none",
             backoff |-> WsSeed, failures |-> 0, slept |-> 0, last |-> "none"],
     ls |-> [pc |-> IF cfg.laserstream_grpc_url # None THEN "connect"
                    ELSE "none",
             backoff |-> LsSeed, failures |-> 0, slept |-> 0],
     rx |-> "open"]

\* the senders alive: one per subscriber task that has not returned
senders(s) ==
    (IF s.ws.pc \in {"none", "exited"} THEN 0 ELSE 1)
    + (IF s.ls.pc \in {"none", "failed"} THEN 0 ELSE 1)

\* receiver.recv() yields None: nothing is queued and no sender is left
is_closed(q, s) == q = <<>> /\ senders(s) = 0

\* SniperState::new, BlockhashCache::new, BalanceCache::new(0)
InitState ==
    /\ seen_mints = {}
    /\ counts = [d \in Devs |-> <<>>]
    /\ now = 0
    /\ balance = InitialBalance
    /\ blockhash = None
    /\ notifier = None
    /\ bhPc = "fetch"
    /\ balPc = "fetch"

InitMain ==
    /\ queue = <<>>
    /\ mainPc = "recv"
    /\ event = None
    /\ spend = 0
    /\ inner = <<>>
    /\ pathState = [p \in {"rpc", "jito", "nozomi"} |-> "idle"]
    /\ procState = "running"
    /\ tx = None
    /\ produced = 0

InitHistory ==
    /\ calls = <<>>
    /\ balHist = [lastSet |-> InitialBalance, debited |-> 0, ndebits |-> 0,
                  prev |-> InitialBalance, op |-> "new", arg |-> InitialBalance]
    /\ filt = None
    /\ allowed = [m \in Mints |-> 0]
    /\ resolved = <<>>
    /\ result = None
    /\ updater = [hash |-> 0, started |-> 0, returned |-> 0]
    /\ reader = [last |-> None, best |-> 0, via |-> "none"]
    /\ pushed = <<>>
    /\ handled = <<>>
    /\ subs = start(config)

NoLimParams == [limit |-> 0, window |-> 0]

----------------------------------------------------------------------------
(* SpecLimiter: one DevRateLimiter, called with a fixed (limit, window) for *)
(* any developer at any time of a clock that never goes back.              *)

LimiterInit ==
    /\ config = BaseConfig
    /\ limParams \in [limit : 0..MaxLimit, window : 0..MaxWindow]
    /\ InitState /\ InitMain /\ InitHistory

\* rate_limiter.is_allowed(&d, limit, window) at Instant::now() = now
LimCall(d) ==
    /\ Len(calls) < MaxCalls
    /\ counts' = [counts EXCEPT
                    ![d] = is_allowed_entry(@, now, limParams.window)]
    /\ calls' = Append(calls,
                    [dev |-> d, t |-> now, before |-> counts[d],
                     ok |-> is_allowed(counts[d], now, limParams.limit,
                                       limParams.window)])
    /\ UNCHANGED <<config, seen_mints, now, balance, blockhash, notifier, bhPc,
                   balPc, queue, mainPc, event, spend, inner, pathState,
                   procState, tx, produced, limParams, balHist, filt, allowed,
                   resolved, result, updater, reader, subVars>>

\* time passes
LimTick ==
    /\ now < MaxTime
    /\ now' = now + 1
    /\ UNCHANGED <<config, seen_mints, counts, balance, blockhash, notifier,
                   bhPc, balPc, queue, mainPc, event, spend, inner, pathState,
                   procState, tx, produced, limParams, calls, balHist, filt,
                   allowed, resolved, result, updater, reader, subVars>>

LimiterNext == (\E d \in Devs : LimCall(d)) \/ LimTick

SpecLimiter == LimiterInit /\ [][LimiterNext]_vars

----------------------------------------------------------------------------
(* SpecBalance: one BalanceCache under any interleaving of set and debit.   *)
(* Both take the write lock, so each is one step.                          *)

BalanceInit ==
    /\ config = BaseConfig
    /\ limParams = NoLimParams
    /\ InitState /\ InitMain /\ InitHistory

BalSet(v) ==
    /\ balance' = set(balance, v)
    /\ balHist' = [lastSet |-> v, debited |-> 0, ndebits |-> 0,
                   prev |-> balance, op |-> "set", arg |-> v]
    /\ UNCHANGED <<config, seen_mints, counts, now, blockhash, notifier, bhPc,
                   balPc, queue, mainPc, event, spend, inner, pathState,
                   procState, tx, produced, limParams, calls, filt, allowed,
                   resolved, result, updater, reader, subVars>>

BalDebit(n) ==
    /\ balHist.ndebits < MaxDebits
    /\ balance' = debit(balance, n)
    /\ balHist' = [lastSet |-> balHist.lastSet,
                   debited |-> balHist.debited + n,
                   ndebits |-> balHist.ndebits + 1,
                   prev |-> balance, op |-> "debit", arg |-> n]
    /\ UNCHANGED <<config, seen_mints, counts, now, blockhash, notifier, bhPc,
                   balPc, queue, mainPc, event, spend, inner, pathState,
                   procState, tx, produced, limParams, calls, filt, allowed,
                   resolved, result, updater, reader, subVars>>

BalanceNext ==
    \/ \E v \in 0..MaxAmount : BalSet(v)
    \/ \E n \in 0..MaxAmount : BalDebit(n)

SpecBalance == BalanceInit /\ [][BalanceNext]_vars

----------------------------------------------------------------------------
(* Claims about the rate limiter (SpecLimiter) *)

\* the calls of developer d that returned true at a time within [a, a + w]
TruesIn(d, a, w) ==
    {i \in 1..Len(calls) :
        calls[i].dev = d /\ calls[i].ok /\ a <= calls[i].t /\ calls[i].t <= a + w}

\* C4: for every developer and every window [a, a + W] of width W, at most L
\* of the is_allowed(dev, L, W) calls made at times inside it returned true.
C4_AtMostLimitPerWindow ==
    \A d \in Devs : \A a \in 0..now :
        Cardinality(TruesIn(d, a, limParams.window)) <= limParams.limit

\* C4 witness: a window holding exactly L >= 1 admitted calls of a developer,
\* its first and last a full W > 0 apart, and a call the limiter refused.
C4_Witness ==
    \E d \in Devs : \E a \in 0..now :
        /\ limParams.limit >= 1
        /\ limParams.window >= 1
        /\ Cardinality(TruesIn(d, a, limParams.window)) = limParams.limit
        /\ \E i \in 1..Len(calls) :
              calls[i].dev = d /\ ~calls[i].ok
              /\ a <= calls[i].t /\ calls[i].t <= a + limParams.window
        /\ \E i \in TruesIn(d, a, limParams.window) : calls[i].t = a

\* C18: after every is_allowed(dev, L, W) call the sequence stored for dev
\* is the previously stored timestamps that lie within the last W, in their
\* order, followed by the timestamp of the call, recorded whether the call
\* returns true or false; the call returns true iff that sequence is no
\* longer than L.
C18_EntryAfterCall ==
    calls # <<>> =>
        LET c == calls[Len(calls)]
            kept == SelectSeq(c.before, LAMBDA ts : c.t - ts <= limParams.window)
        IN  /\ counts[c.dev] = kept \o <<c.t>>
            /\ c.ok <=> Len(counts[c.dev]) <= limParams.limit
            /\ \A d \in Devs \ {c.dev} :
                  \A i \in 1..Len(counts[d]) : counts[d][i] <= c.t

\* C18 witness: a call that returned false dropped an expired timestamp,
\* kept one within the window and recorded its own.
C18_Witness ==
    /\ calls # <<>>
    /\ LET c == calls[Len(calls)] IN
        /\ ~c.ok
        /\ limParams.limit >= 1
        /\ Len(c.before) >= 2
        /\ Len(counts[c.dev]) = Len(c.before)
        /\ counts[c.dev][Len(counts[c.dev])] = c.t
        /\ c.before[1] < c.t - limParams.window

----------------------------------------------------------------------------
(* Claims about the balance cache (SpecBalance) *)

\* C5: the balance never underflows: it is >= 0 and >= the last set value
\* minus the debits requested since, and a debit(n) leaves it unchanged when
\* it was < n and subtracts n otherwise.
C5_NeverUnderflows ==
    /\ current(balance) >= 0
    /\ current(balance) >= balHist.lastSet - balHist.debited
    /\ balHist.op = "debit" =>
          current(balance) = IF balHist.prev < balHist.arg
                             THEN balHist.prev
                             ELSE balHist.prev - balHist.arg

\* C5 witness: after a set and a debit that was applied, a debit larger than
\* the positive remainder was requested and left it unchanged.
C5_Witness ==
    /\ balHist.op = "debit"
    /\ balHist.prev > 0
    /\ balHist.prev < balHist.arg
    /\ balHist.debited > balHist.arg
    /\ balance = balHist.prev
    /\ balance < balHist.lastSet

\* C16 as claimed: debit(n) saturates at zero: after debit(n) on the value b
\* the cache holds max(b - n, 0).
C16_DebitSaturates ==
    balHist.op = "debit" =>
        current(balance) = Max(balHist.prev - balHist.arg, 0)

\* C16 amended: debit(n) never takes the cache below zero, without
\* saturating: after debit(n) on the value b the cache holds b - n when
\* b >= n, and b itself when b < n, which is max(b - n, 0) only for b = 0.
C16_DebitSkipsWhenShort ==
    balHist.op = "debit" =>
        /\ balHist.prev >= balHist.arg =>
              current(balance) = balHist.prev - balHist.arg
        /\ balHist.prev < balHist.arg => current(balance) = balHist.prev
        /\ current(balance) >= Max(balHist.prev - balHist.arg, 0)

\* C16 witness: a debit larger than the positive value of the cache left
\* the cache as it was.
C16_Witness ==
    /\ balHist.op = "debit"
    /\ 0 < balHist.prev
    /\ balHist.prev < balHist.arg
    /\ current(balance) = balHist.prev

----------------------------------------------------------------------------
(* The blockhash refresher (state.rs:40-55).  update() takes the write lock *)
(* and then replaces the watch channel's value: two steps, between which   *)
(* the tasks and threads of the runtime run.                               *)

cfgVars == <<config, limParams>>
filterVars == <<seen_mints, counts, filt, allowed, calls>>
balVars == <<balance, balPc, balHist>>
bhVars == <<blockhash, notifier, bhPc, updater>>
mainVars == <<queue, mainPc, event, spend, tx, procState, produced>>
dispVars == <<inner, pathState, resolved, result>>

\* get_latest_blockhash returned Ok(hash): update's write of inner
BhFetchOk ==
    /\ procState = "running"
    /\ bhPc = "fetch"
    /\ updater.started < MaxHash
    /\ LET hash == updater.started + 1 IN
        /\ blockhash' = on_blockhash_result(blockhash, Some(hash))
        /\ updater' = [updater EXCEPT !.hash = hash, !.started = hash]
    /\ bhPc' = "notify"
    /\ UNCHANGED <<cfgVars, filterVars, now, balVars, notifier, mainVars,
                   dispVars, reader, subVars>>

\* update's send_replace, after which update returns and the task sleeps
BhNotify ==
    /\ procState = "running"
    /\ bhPc = "notify"
    /\ notifier' = send_replace(notifier, updater.hash)
    /\ updater' = [updater EXCEPT !.returned = updater.hash]
    /\ bhPc' = "sleep"
    /\ UNCHANGED <<cfgVars, filterVars, now, balVars, blockhash, mainVars,
                   dispVars, reader, subVars>>

\* get_latest_blockhash returned Err: the Err arm logs the warning, and the
\* task sleeps
BhFetchErr ==
    /\ procState = "running"
    /\ bhPc = "fetch"
    /\ blockhash' = on_blockhash_result(blockhash, None)
    /\ bhPc' = "warned"
    /\ UNCHANGED <<cfgVars, filterVars, now, balVars, notifier, updater,
                   mainVars, dispVars, reader, subVars>>

\* tokio::time::sleep(interval) is over: next round of the loop
BhWake ==
    /\ procState = "running"
    /\ bhPc \in {"sleep", "warned"}
    /\ bhPc' = "fetch"
    /\ UNCHANGED <<cfgVars, filterVars, now, balVars, blockhash, notifier,
                   updater, mainVars, dispVars, reader, subVars>>

----------------------------------------------------------------------------
(* SpecCache: the blockhash cache, its refresher, and one reader that holds *)
(* the cache and a subscribe() receiver and reads through either.          *)

observe(value, via) ==
    [last |-> value, best |-> Max(reader.best, rank(reader.last)), via |-> via]

ReadLatest ==
    /\ reader' = observe(latest(blockhash), "latest")
    /\ UNCHANGED <<cfgVars, filterVars, now, balVars, bhVars, mainVars,
                   dispVars, subVars>>

ReadReceiver ==
    /\ reader' = observe(borrow(notifier), "receiver")
    /\ UNCHANGED <<cfgVars, filterVars, now, balVars, bhVars, mainVars,
                   dispVars, subVars>>

CacheInit ==
    /\ config = BaseConfig
    /\ limParams = NoLimParams
    /\ InitState /\ InitMain /\ InitHistory

CacheNext ==
    \/ BhFetchOk \/ BhNotify \/ BhFetchErr \/ BhWake
    \/ ReadLatest \/ ReadReceiver

SpecCache == CacheInit /\ [][CacheNext]_vars

\* C7: updates are atomic to readers: once update(h) has returned, latest()
\* returns h or a later value, and a reader, reading through latest() or
\* through its receiver, never observes a value older than one it observed
\* before.
C7_ReadersNeverGoBack ==
    /\ rank(latest(blockhash)) >= updater.returned
    /\ rank(reader.last) >= reader.best

\* C7, one way at a time: the values latest() returns never go back, the
\* values a receiver holds never go back, and latest() is never behind an
\* update that has returned
C7_SameWayNeverGoesBack ==
    [][/\ rank(latest(blockhash')) >= rank(latest(blockhash))
       /\ rank(borrow(notifier')) >= rank(borrow(notifier))
       /\ rank(latest(blockhash')) >= updater'.returned]_vars

----------------------------------------------------------------------------
(* Spec: the pipeline of main.rs.  The balance refresher (main.rs:37-42),   *)
(* the blockhash refresher above, a subscriber that sends parsed events,   *)
(* and the main loop with handle_event and the dispatch fan-out.           *)

\* the purchase strategies of the model: half the balance, and 3/2 of it,
\* which compute_buy_amount rejects
Strategies ==
    {[kind |-> "percent_balance", num |-> 1, den |-> 2],
     [kind |-> "percent_balance", num |-> 3, den |-> 2]}

PipelineConfigs ==
    {[BaseConfig EXCEPT !.whitelist = w, !.blacklist = b,
                        !.dev_max_tokens_per_min = l,
                        !.purchase_strategy = st, !.dry_run = dr,
                        !.jito_api_url = j, !.nozomi_rpc_url = n] :
        w \in {{}}, b \in {{"D2"}}, l \in {Some(1)},
        st \in Strategies, dr \in {None, Some(TRUE)},
        j \in {None, Some("jito")}, n \in {None}}

\* the events the subscriber parses in Spec: two mints of a developer the
\* filters accept, and one of the blacklisted developer
PipelineEvents == {<<"M1", "D1">>, <<"M2", "D1">>, <<"M1", "D2">>}

Init ==
    /\ config \in PipelineConfigs
    /\ limParams = NoLimParams
    /\ InitState /\ InitMain /\ InitHistory

\* time passes
Tick ==
    /\ procState = "running"
    /\ now + TickStep <= MaxClock
    /\ now' = now + TickStep
    /\ UNCHANGED <<cfgVars, filterVars, balVars, bhVars, mainVars, dispVars,
                   reader, subVars>>

\* refresh_balance: get_balance returned Ok(v)
BalFetchOk(v) ==
    /\ procState = "running"
    /\ balPc = "fetch"
    /\ balance' = refresh_balance(balance, Some(v))
    /\ balPc' = "sleep"
    /\ UNCHANGED <<cfgVars, filterVars, now, balHist, bhVars, mainVars,
                   dispVars, reader, subVars>>

\* refresh_balance: get_balance returned Err; the Err arm logs the warning
BalFetchErr ==
    /\ procState = "running"
    /\ balPc = "fetch"
    /\ balance' = refresh_balance(balance, None)
    /\ balPc' = "warned"
    /\ UNCHANGED <<cfgVars, filterVars, now, balHist, bhVars, mainVars,
                   dispVars, reader, subVars>>

\* tokio::time::sleep(balance_interval) is over
BalWake ==
    /\ procState = "running"
    /\ balPc \in {"sleep", "warned"}
    /\ balPc' = "fetch"
    /\ UNCHANGED <<cfgVars, filterVars, now, balance, balHist, bhVars,
                   mainVars, dispVars, reader, subVars>>

\* websocket::run: parse_event gave an event and tx.send(event) queued it
WsSend(m, d) ==
    /\ procState = "running"
    /\ produced < MaxEvents
    /\ queue' = send(queue, [mint |-> m, developer |-> d,
                             source |-> "WebSocket"])
    /\ produced' = produced + 1
    /\ pushed' = Append(pushed, [mint |-> m, developer |-> d,
                                 source |-> "WebSocket"])
    /\ UNCHANGED <<cfgVars, filterVars, now, balVars, bhVars, mainPc, event,
                   spend, tx, procState, dispVars, reader, handled, subs>>

\* receiver.recv() yields the next event and handle_event runs up to the end
\* of its match on apply_filters (main.rs:52-97): on Allowed the mint is
\* inserted and handle_event goes on, on any other verdict it returns Ok(())
MainFilter ==
    /\ procState = "running"
    /\ at_recv(mainPc)
    /\ queue # <<>>
    /\ LET ev == recv(queue).event
           r == apply_filters(ev, config, seen_mints, counts, now)
       IN  /\ counts' = r.counts
           /\ filt' = Some([event |-> ev, seen |-> seen_mints,
                            counts |-> counts, t |-> now,
                            decision |-> r.decision])
           /\ IF r.decision = "Allowed"
              THEN /\ seen_mints' = seen_insert(seen_mints, ev.mint)
                   /\ allowed' = [allowed EXCEPT ![ev.mint] = @ + 1]
                   /\ event' = Some(ev)
                   /\ mainPc' = "build"
              ELSE /\ UNCHANGED <<seen_mints, allowed>>
                   /\ event' = None
                   /\ mainPc' = "recv"
    /\ queue' = recv(queue).rest
    /\ handled' = Append(handled, recv(queue).event)
    /\ UNCHANGED <<cfgVars, calls, now, balVars, bhVars, spend, tx, procState,
                   produced, dispVars, reader, pushed, subs>>

\* handle_event from compute_buy_amount to the call of dispatch_transaction
\* (main.rs:99-110, dispatch.rs:21-43): a build error returns Err, which
\* main's `?` returns in turn; no transaction or dry-run returns Ok(());
\* otherwise the paths are launched
MainBuild ==
    /\ procState = "running"
    /\ mainPc = "build"
    /\ LET amount == compute_buy_amount(config, current(balance))
           built == build_buy_transaction(event[1], amount.v, blockhash, config)
       IN  /\ balHist' = [balHist EXCEPT !.op = "current",
                                         !.prev = current(balance),
                                         !.arg = amount.v]
           /\ IF ~amount.ok
              THEN /\ procState' = "failed"
                   /\ mainPc' = "returned"
                   /\ UNCHANGED <<event, spend, tx, dispVars>>
              ELSE /\ UNCHANGED procState
                   /\ IF built = None \/ dry_run(config)
                      THEN /\ mainPc' = "recv"
                           /\ event' = None
                           /\ UNCHANGED <<spend, tx, dispVars>>
                      ELSE /\ mainPc' = "dispatch"
                           /\ spend' = amount.v
                           /\ tx' = built
                           /\ inner' = launched(config)
                           /\ pathState' =
                                 [p \in DOMAIN pathState |->
                                    IF \E i \in 1..Len(launched(config)) :
                                          launched(config)[i] = p
                                    THEN "pending" ELSE "idle"]
                           /\ result' = None
                           /\ UNCHANGED <<event, resolved>>
    /\ UNCHANGED <<cfgVars, filterVars, now, balance, balPc, bhVars, queue,
                   produced, reader, subVars>>

\* a launched path's request has ended, with a signature or with an error
PathDone(p, r) ==
    /\ procState = "running"
    /\ mainPc = "dispatch"
    /\ pathState[p] = "pending"
    /\ pathState' = [pathState EXCEPT ![p] = r]
    /\ UNCHANGED <<cfgVars, filterVars, now, balVars, bhVars, mainVars, inner,
                   resolved, result, reader, subVars>>

\* the main task is polled with a path ready: select_ok resolves what is
\* ready; when it returns, handle_event debits on Ok and logs on Err, and
\* the paths left are dropped (main.rs:110-119)
DispatchPoll ==
    /\ procState = "running"
    /\ mainPc = "dispatch"
    /\ first_ready(inner, pathState) # 0
    /\ LET r == select_ok(inner, pathState, <<>>) IN
       /\ UNCHANGED resolved
       /\ IF r.status = "pending"
          THEN /\ inner' = r.inner
               /\ pathState' =
                     [p \in DOMAIN pathState |->
                        IF \E i \in 1..Len(r.inner) : r.inner[i] = p
                        THEN pathState[p] ELSE "idle"]
               /\ UNCHANGED <<result, balance, mainPc, event, tx, spend>>
          ELSE /\ inner' = <<>>
               /\ pathState' = [p \in DOMAIN pathState |-> "idle"]
               /\ result' = Some([ok |-> r.status = "ok", who |-> r.who])
               /\ balance' = on_dispatch_result(balance, r.status = "ok", spend)
               /\ mainPc' = "recv"
               /\ event' = None
               /\ tx' = None
               /\ spend' = 0
    /\ UNCHANGED <<cfgVars, filterVars, now, balPc, balHist, bhVars, queue,
                   procState, produced, reader, subVars>>

Next ==
    \/ Tick
    \/ BhFetchOk \/ BhNotify \/ BhFetchErr \/ BhWake
    \/ \E v \in {0, MaxBalance} : BalFetchOk(v)
    \/ BalFetchErr \/ BalWake
    \/ \E e \in PipelineEvents : WsSend(e[1], e[2])
    \/ MainFilter \/ MainBuild
    \/ \E p \in {"rpc", "jito", "nozomi"}, r \in {"ok", "err"} : PathDone(p, r)
    \/ DispatchPoll

Spec == Init /\ [][Next]_vars

\* C1: at most one event per mint gets Allowed: the mint is in seen_mints
\* as soon as handle_event goes on to spend, build and dispatch, and any
\* verdict other than Duplicate is given only to a mint never Allowed before.
C1_OneAllowedPerMint ==
    /\ \A m \in Mints : allowed[m] <= 1
    /\ \A m \in Mints : allowed[m] = 1 <=> m \in seen_mints
    /\ mainPc \in {"build", "dispatch"} => event[1].mint \in seen_mints
    /\ filt # None =>
          /\ filt[1].decision = "Allowed" => filt[1].event.mint \notin filt[1].seen
          /\ filt[1].event.mint \in filt[1].seen => filt[1].decision = "Duplicate"

\* C1 witness: a second event of a mint that was Allowed, otherwise
\* acceptable (developer not blacklisted, its rate-limit window empty),
\* got Duplicate.
C1_Witness ==
    /\ filt # None
    /\ filt[1].decision = "Duplicate"
    /\ allowed[filt[1].event.mint] = 1
    /\ filt[1].event.developer \notin config.blacklist
    /\ retain(filt[1].counts[filt[1].event.developer], filt[1].t, Window) = <<>>

\* C2: a build error aborts only the event at hand: main does not return,
\* the loop goes on receiving and every background task keeps running.
C2_BuildErrorAbortsOnlyEvent == procState = "running"

\* C6: once the blockhash cache holds a value it never is empty again; a
\* failed refresh of the blockhash or of the balance leaves the cached value
\* as it was, and the refresher goes on to its next round.
C6_FailedRefreshKeepsCache ==
    [][/\ latest(blockhash) # None => latest(blockhash') # None
       /\ (bhPc = "fetch" /\ bhPc' = "warned") =>
             (blockhash' = blockhash /\ notifier' = notifier)
       /\ (balPc = "fetch" /\ balPc' = "warned") => balance' = balance
       /\ bhPc = "warned" => bhPc' \in {"warned", "fetch"}
       /\ balPc = "warned" => balPc' \in {"warned", "fetch"}]_vars

\* C6 witness: a blockhash refresh and a balance refresh have just failed
\* with a blockhash and a positive balance in the caches.
C6_Witness ==
    /\ bhPc = "warned"
    /\ latest(blockhash) # None
    /\ balPc = "warned"
    /\ current(balance) > 0

\* the step in which dispatch_transaction returns to handle_event
DispatchReturns == mainPc = "dispatch" /\ mainPc' = "recv"

\* C11: the main loop debits the balance cache only after a successful
\* dispatch of the current event: the balance changes only by a refresher's
\* set or in the step in which dispatch returns Ok, a dispatch that fails
\* leaves it as it was, and dispatch is attempted only for an event that got
\* Allowed, outside dry-run mode, with a blockhash in the cache.
C11_DebitOnlyAfterSuccess ==
    [][/\ (balance' # balance /\ balPc' = balPc) =>
             /\ DispatchReturns
             /\ result' # None /\ result'[1].ok
             /\ balance' = balance - spend
       /\ (DispatchReturns /\ ~result'[1].ok) => balance' = balance
       /\ (mainPc # "dispatch" /\ mainPc' = "dispatch") =>
             /\ filt[1].decision = "Allowed"
             /\ filt[1].event = event[1]
             /\ ~dry_run(config)
             /\ latest(blockhash) # None
       /\ (mainPc = "recv" /\ mainPc' = "recv" /\ filt' # filt) =>
             /\ filt'[1].decision # "Allowed"
             /\ balance' = balance
       /\ mainPc # "dispatch" => \A p \in DOMAIN pathState : pathState[p] = "idle"
      ]_vars

\* C11 witness: every path of a dispatch failed and the balance, which the
\* spend would have reduced, is whole.
C11_Witness ==
    /\ result # None
    /\ ~result[1].ok
    /\ balHist.op = "current"
    /\ balHist.arg > 0
    /\ current(balance) = balHist.prev

C17_FailedDispatchKeepsMint ==
    [][/\ seen_mints \subseteq seen_mints'
       /\ (DispatchReturns /\ ~result'[1].ok) =>
             /\ procState' = "running"
             /\ event' = None
             /\ queue' = queue
             /\ event[1].mint \in seen_mints'
       /\ Len(handled') > Len(handled) =>
             /\ filt'[1].seen = seen_mints
             /\ filt'[1].event.mint \in seen_mints =>
                   filt'[1].decision = "Duplicate"]_vars

\* C17 witness: the dispatch of a mint's first event failed on every path,
\* and the next event, of the same mint, got Duplicate.
C17_Witness ==
    /\ result # None
    /\ ~result[1].ok
    /\ Len(handled) = 2
    /\ handled[1].mint = handled[2].mint
    /\ allowed[handled[1].mint] = 1
    /\ filt[1].event = handled[2]
    /\ filt[1].decision = "Duplicate"
    /\ procState = "running"

----------------------------------------------------------------------------
(* SpecFilter: the main loop in dry-run mode, with every whitelist and      *)
(* blacklist over the developers, before any refresher has run.  Its       *)
(* events go through apply_filters in every filter state the loop reaches. *)

FilterConfigs ==
    {[BaseConfig EXCEPT !.whitelist = w, !.blacklist = b,
                        !.dev_max_tokens_per_min = l,
                        !.dry_run = Some(TRUE)] :
        w \in SUBSET Devs, b \in SUBSET Devs, l \in {None, Some(0), Some(1)}}

FilterInit ==
    /\ config \in FilterConfigs
    /\ limParams = NoLimParams
    /\ InitState /\ InitMain /\ InitHistory

FilterNext ==
    \/ Tick
    \/ \E m \in Mints, d \in Devs : WsSend(m, d)
    \/ MainFilter \/ MainBuild

SpecFilter == FilterInit /\ [][FilterNext]_vars

InBothLists(dev) == dev \in config.whitelist /\ dev \in config.blacklist

\* C8 as claimed: an event whose developer is in both lists gets Blacklisted.
C8_BothListsBlacklisted ==
    (filt # None /\ InBothLists(filt[1].event.developer)) =>
        filt[1].decision = "Blacklisted"

\* C8 amended: an event whose developer is in both lists is always
\* rejected: as Duplicate when its mint has been seen, as Blacklisted
\* otherwise.
C8_BothListsRejected ==
    (filt # None /\ InBothLists(filt[1].event.developer)) =>
        filt[1].decision = IF filt[1].event.mint \in filt[1].seen
                           THEN "Duplicate" ELSE "Blacklisted"

\* C8 witness: with a mint already seen, an event of another mint whose
\* developer is in both lists got Blacklisted.
C8_Witness ==
    /\ filt # None
    /\ InBothLists(filt[1].event.developer)
    /\ filt[1].seen # {}
    /\ filt[1].decision = "Blacklisted"

\* C9: with an empty whitelist no event gets NotWhitelisted; with a
\* non-empty one, an event whose developer is not in it, nor blacklisted,
\* and whose mint is not seen gets NotWhitelisted.
C9_WhitelistSemantics ==
    filt # None =>
        /\ config.whitelist = {} => filt[1].decision # "NotWhitelisted"
        /\ (/\ config.whitelist # {}
            /\ filt[1].event.developer \notin config.whitelist
            /\ filt[1].event.developer \notin config.blacklist
            /\ filt[1].event.mint \notin filt[1].seen)
           => filt[1].decision = "NotWhitelisted"

\* C9 witness: an event got NotWhitelisted after another had been Allowed.
C9_Witness ==
    /\ filt # None
    /\ filt[1].decision = "NotWhitelisted"
    /\ filt[1].seen # {}

\* the timestamps of an entry that lie within the last Window seconds
Recent(entry, t) == {i \in DOMAIN entry : t - entry[i] <= Window}

\* the decision list of the specification, first match wins
ReferenceDecision(f) ==
    LET limit == IF config.dev_max_tokens_per_min = None
                 THEN DefaultMaxPerMin ELSE config.dev_max_tokens_per_min[1]
    IN  CASE f.event.mint \in f.seen -> "Duplicate"
          [] f.event.mint \notin f.seen
             /\ f.event.developer \in config.blacklist -> "Blacklisted"
          [] f.event.mint \notin f.seen
             /\ f.event.developer \notin config.blacklist
             /\ config.whitelist # {}
             /\ f.event.developer \notin config.whitelist -> "NotWhitelisted"
          [] OTHER ->
             IF Cardinality(Recent(f.counts[f.event.developer], f.t)) + 1 > limit
             THEN "RateLimited" ELSE "Allowed"

\* C10: the verdict of apply_filters is that of the decision list Duplicate,
\* Blacklisted, NotWhitelisted, RateLimited, Allowed for every event and
\* state, and the rate limiter is consulted (its timestamp recorded) exactly
\* when none of the first three matched.
C10_FixedOrder ==
    filt # None =>
        /\ filt[1].decision = ReferenceDecision(filt[1])
        /\ filt[1].decision \in {"Duplicate", "Blacklisted", "NotWhitelisted"}
              <=> counts = filt[1].counts

\* C10 witness: an event matching two conditions, mint seen and developer
\* blacklisted, got the first verdict of the order.
C10_Witness ==
    /\ filt # None
    /\ filt[1].event.mint \in filt[1].seen
    /\ filt[1].event.developer \in config.blacklist
    /\ filt[1].decision = "Duplicate"

\* C10 witness of the fourth verdict: rate limited
C10_WitnessRateLimited ==
    /\ filt # None
    /\ filt[1].decision = "RateLimited"
    /\ config.dev_max_tokens_per_min = Some(1)

\* C15: every event a subscriber pushed into the queue is handed to the main
\* loop exactly once and in the order of the pushes: the events handled so
\* far, followed by those waiting in the queue, are the events pushed, and
\* the main loop receives whenever it is idle and an event waits.
C15_DeliveredOnceInOrder ==
    /\ pushed = handled \o queue
    /\ Len(pushed) = produced
    /\ handled # <<>> => filt[1].event = handled[Len(handled)]
    /\ (procState = "running" /\ mainPc = "recv" /\ queue # <<>>) =>
          ENABLED MainFilter

\* C15 witness: two different events were pushed; the first has been
\* handled, the second waits.
C15_Witness ==
    /\ Len(pushed) = 2
    /\ pushed[1] # pushed[2]
    /\ handled = <<pushed[1]>>
    /\ queue = <<pushed[2]>>

----------------------------------------------------------------------------
(* SpecDispatch: dispatch_transaction alone, for every set of configured    *)
(* paths, with the order in which select_ok resolves the paths recorded.   *)

DispatchConfigs ==
    {[BaseConfig EXCEPT !.jito_api_url = j, !.nozomi_rpc_url = n] :
        j \in {None, Some("jito")}, n \in {None, Some("nozomi")}}

DispatchInit ==
    /\ config \in DispatchConfigs
    /\ limParams = NoLimParams
    /\ InitState /\ InitMain /\ InitHistory

\* dispatch_transaction is called: the futures are pushed and select_ok
\* awaited (dispatch.rs:24-43)
DispLaunch ==
    /\ mainPc = "recv"
    /\ mainPc' = "dispatch"
    /\ inner' = launched(config)
    /\ pathState' = [p \in DOMAIN pathState |->
                        IF \E i \in 1..Len(launched(config)) :
                              launched(config)[i] = p
                        THEN "pending" ELSE "idle"]
    /\ resolved' = <<>>
    /\ result' = None
    /\ UNCHANGED <<cfgVars, filterVars, now, balVars, bhVars, queue, event,
                   spend, tx, procState, produced, reader, subVars>>

\* the caller is polled with a path ready: one poll of select_ok; when it
\* ends with Ok or Err, dispatch_transaction returns it and the futures
\* left are dropped (dispatch.rs:43-46)
DispPoll ==
    /\ mainPc = "dispatch"
    /\ first_ready(inner, pathState) # 0
    /\ LET r == select_ok(inner, pathState, resolved) IN
       /\ resolved' = r.log
       /\ IF r.status = "pending"
          THEN /\ inner' = r.inner
               /\ pathState' =
                     [p \in DOMAIN pathState |->
                        IF \E i \in 1..Len(r.inner) : r.inner[i] = p
                        THEN pathState[p] ELSE "idle"]
               /\ UNCHANGED <<result, mainPc>>
          ELSE /\ inner' = <<>>
               /\ pathState' = [p \in DOMAIN pathState |-> "idle"]
               /\ result' = Some([ok |-> r.status = "ok", who |-> r.who])
               /\ mainPc' = "recv"
    /\ UNCHANGED <<cfgVars, filterVars, now, balVars, bhVars, queue, event,
                   spend, tx, procState, produced, reader, subVars>>

DispatchNext ==
    \/ DispLaunch
    \/ \E p \in {"rpc", "jito", "nozomi"}, r \in {"ok", "err"} : PathDone(p, r)
    \/ DispPoll

SpecDispatch == DispatchInit /\ [][DispatchNext]_vars

Range(f) == {f[i] : i \in DOMAIN f}

\* C3: dispatch returns Ok exactly when select_ok resolved a success, with
\* the signature of the first path resolved with success, whatever paths
\* failed before it; it returns Err only when every launched path has been
\* resolved with failure, and then the error of the path that failed last.
C3_FirstSuccessElseLastError ==
    LET n == Len(resolved) IN
    /\ \A i \in 1..(n - 1) : resolved[i].res = "err"
    /\ result = None => \A i \in 1..n : resolved[i].res = "err"
    /\ (result # None /\ result[1].ok) =>
          /\ n >= 1
          /\ resolved[n] = [path |-> result[1].who, res |-> "ok"]
    /\ (result # None /\ ~result[1].ok) =>
          /\ n = Len(launched(config))
          /\ {resolved[i].path : i \in 1..n} = Range(launched(config))
          /\ \A i \in 1..n : resolved[i].res = "err"
          /\ resolved[n].path = result[1].who

\* C3 witness: three paths launched, the first two resolved failed before
\* the third, whose success dispatch returned.
C3_Witness ==
    /\ result # None
    /\ result[1].ok
    /\ Len(resolved) = 3
    /\ resolved[1].res = "err"
    /\ resolved[2].res = "err"
    /\ result[1].who = resolved[3].path

\* C3 witness of the error case: all of three paths failed, and the error
\* returned is not the primary path's
C3_WitnessAllFailed ==
    /\ result # None
    /\ ~result[1].ok
    /\ Len(resolved) = 3
    /\ result[1].who # "rpc"

----------------------------------------------------------------------------
(* SpecBuilder: build_buy_transaction called with any event and amount,     *)
(* with and without a priority fee, while the blockhash refresher runs.    *)
(* The transaction returned is kept until the next call.                   *)

BuilderConfigs ==
    {[BaseConfig EXCEPT !.priority_fee_lamports = f] :
        f \in {None, Some(0), Some(1000)}}

\* the lamports passed: one byte, two bytes, four bytes
BuilderLamports == {0, 1, 255, 256, 65538, 100000000}

BuilderInit ==
    /\ config \in BuilderConfigs
    /\ limParams = NoLimParams
    /\ InitState /\ InitMain /\ InitHistory

\* a caller holds an event and an amount, and is about to call the builder
BuilderCall(ev, lamports) ==
    /\ mainPc = "recv"
    /\ mainPc' = "build"
    /\ event' = Some(ev)
    /\ spend' = lamports
    /\ tx' = None
    /\ UNCHANGED <<cfgVars, filterVars, now, balVars, bhVars, queue, procState,
                   produced, dispVars, reader, subVars>>

\* builder.build_buy_transaction(event, spend_lamports) returns
BuilderBuild ==
    /\ mainPc = "build"
    /\ mainPc' = "recv"
    /\ tx' = build_buy_transaction(event[1], spend, blockhash, config)
    /\ UNCHANGED <<cfgVars, filterVars, now, balVars, bhVars, queue, event,
                   spend, procState, produced, dispVars, reader, subVars>>

BuilderNext ==
    \/ BhFetchOk \/ BhNotify \/ BhFetchErr \/ BhWake
    \/ \E m \in Mints, d \in Devs, l \in BuilderLamports :
          BuilderCall([mint |-> m, developer |-> d, source |-> "WebSocket"], l)
    \/ BuilderBuild

SpecBuilder == BuilderInit /\ [][BuilderNext]_vars

\* C19: build_buy returns no transaction iff the blockhash cache is empty
\* when it is called; otherwise the transaction's recent blockhash is the
\* value latest() holds at that time, and it stays so when the refresher
\* installs a newer blockhash afterwards.
C19_BlockhashAtBuildTime ==
    [][/\ (mainPc = "build" /\ mainPc' = "recv") =>
             /\ tx' = None <=> latest(blockhash) = None
             /\ tx' # None => Some(tx'[1].recent_blockhash) = latest(blockhash)
       /\ blockhash' # blockhash => tx' = tx]_vars

\* C19 witness: a transaction was built and the refresher has installed a
\* newer blockhash since.
C19_Witness ==
    /\ tx # None
    /\ rank(latest(blockhash)) > tx[1].recent_blockhash

\* u64::from_le_bytes
RECURSIVE from_le_bytes(_)
from_le_bytes(bytes) ==
    IF bytes = <<>> THEN 0 ELSE bytes[1] + 256 * from_le_bytes(Tail(bytes))

\* C20: the transaction's instructions are, in order, the compute-unit-price
\* instruction iff a priority fee is configured, the creation of the
\* associated token account of (payer, mint), and the buy instruction; the
\* buy instruction's accounts are the mint (writable, non-signer), the payer
\* (writable, signer) and the system program (read-only, non-signer), and
\* its data the 8 little-endian bytes of lamports followed by the 32 bytes
\* of the developer.
C20_InstructionLayout ==
    tx # None =>
        LET ins == tx[1].instructions
            n == Len(ins)
            ata == ins[n - 1]
            buy == ins[n]
        IN  /\ n = IF config.priority_fee_lamports # None THEN 3 ELSE 2
            /\ n = 3 =>
                  /\ ins[1].program_id = ComputeBudgetProgram
                  /\ from_le_bytes(Tail(ins[1].data)) =
                        config.priority_fee_lamports[1]
            /\ ata.program_id = AtaProgram
            /\ ata.accounts[1].pubkey = Payer
            /\ ata.accounts[2].pubkey = <<"ata", Payer, event[1].mint>>
            /\ ata.accounts[4].pubkey = event[1].mint
            /\ buy.program_id = PumpFunProgram
            /\ buy.accounts =
                  << [pubkey |-> event[1].mint, is_signer |-> FALSE,
                      is_writable |-> TRUE],
                     [pubkey |-> Payer, is_signer |-> TRUE,
                      is_writable |-> TRUE],
                     [pubkey |-> SystemProgram, is_signer |-> FALSE,
                      is_writable |-> FALSE] >>
            /\ Len(buy.data) = 40
            /\ \A i \in 1..40 : buy.data[i] \in 0..255
            /\ \A i \in 1..4 : buy.data[i] = (spend \div (256 ^ (i - 1))) % 256
            /\ \A i \in 5..8 : buy.data[i] = 0
            /\ from_le_bytes(SubSeq(buy.data, 1, 8)) = spend
            /\ SubSeq(buy.data, 9, 40) = to_bytes(event[1].developer)

\* C20 witness: a transaction of three instructions whose buy spends an
\* amount of more than one byte.
C20_Witness ==
    /\ tx # None
    /\ Len(tx[1].instructions) = 3
    /\ spend = 100000000
    /\ event[1].developer = "D2"

----------------------------------------------------------------------------
(* SpecSubscribers: the two subscriber tasks EventSupervisor::start spawns, *)
(* against a network that fails at any point and a receiver that may be    *)
(* dropped.  A sleep that has begun ends: the timers are the runtime's.    *)

SubscriberConfigs ==
    {[BaseConfig EXCEPT !.laserstream_grpc_url = l] :
        l \in {Some("grpc"), Some("not a uri")}}

SubscribersInit ==
    /\ config \in SubscriberConfigs
    /\ limParams = NoLimParams
    /\ InitState /\ InitMain /\ InitHistory

subsUnchanged ==
    UNCHANGED <<cfgVars, filterVars, now, balVars, bhVars, mainVars, dispVars,
                reader, pushed, handled>>

\* connect_async returned Ok: the subscribe message is sent, its result
\* ignored (websocket.rs:37-59)
WsConnectOk ==
    /\ procState = "running"
    /\ subs.ws.pc = "connect"
    /\ subs' = [subs EXCEPT !.ws.pc = "connected", !.ws.last = "subscribed"]
    /\ subsUnchanged

\* connect_async returned Err: warn, then sleep(backoff) (websocket.rs:87-90)
WsConnectErr ==
    /\ procState = "running"
    /\ subs.ws.pc = "connect"
    /\ subs.ws.failures < MaxFailures
    /\ subs' = [subs EXCEPT !.ws.pc = "sleep", !.ws.last = "connect_failed",
                            !.ws.failures = @ + 1,
                            !.ws.slept = subs.ws.backoff]
    /\ subsUnchanged

\* a text message that parse_event accepts, sent into the open channel
WsText(m, d) ==
    /\ subs.ws.pc = "connected"
    /\ subs.rx = "open"
    /\ on_message("text", TRUE) = "connected"
    /\ WsSend(m, d)

\* a text message that parse_event accepts, with the receiver dropped:
\* tx.send is Err and run returns Ok(()) (websocket.rs:65-68)
WsSendFailed ==
    /\ procState = "running"
    /\ subs.ws.pc = "connected"
    /\ subs.rx = "dropped"
    /\ subs' = [subs EXCEPT !.ws.pc = on_message("text", FALSE),
                            !.ws.last = "send_failed"]
    /\ subsUnchanged

\* a message that is dropped or answered, and the loop reads on
\* (websocket.rs:64, 71-75)
WsIgnored(kind) ==
    /\ procState = "running"
    /\ subs.ws.pc = "connected"
    /\ subs' = [subs EXCEPT !.ws.pc = on_message(kind, FALSE),
                            !.ws.last = kind]
    /\ subsUnchanged

\* a close frame, a socket error or the end of the stream: the inner loop
\* ends and sleep(backoff) begins (websocket.rs:76-90)
WsBroken(kind) ==
    /\ procState = "running"
    /\ subs.ws.pc = "connected"
    /\ subs.ws.failures < MaxFailures
    /\ subs' = [subs EXCEPT !.ws.pc = on_message(kind, FALSE),
                            !.ws.last = kind,
                            !.ws.failures =
                                IF on_message(kind, FALSE) = "sleep"
                                THEN @ + 1 ELSE @,
                            !.ws.slept = subs.ws.backoff]
    /\ subsUnchanged

\* the sleep is over: backoff grows and the loop connects again
\* (websocket.rs:90-91)
WsWake ==
    /\ procState = "running"
    /\ subs.ws.pc = "sleep"
    /\ subs' = [subs EXCEPT !.ws.pc = "connect",
                            !.ws.backoff =
                                next_backoff(@, WsStep, WsBackoffMax)]
    /\ subsUnchanged

\* Channel::from_shared refuses the endpoint: `?` returns the error and the
\* task ends (laserstream.rs:12)
LsInvalidUri ==
    /\ procState = "running"
    /\ subs.ls.pc = "connect"
    /\ ~valid_uri(config.laserstream_grpc_url)
    /\ subs' = [subs EXCEPT !.ls.pc = "failed"]
    /\ subsUnchanged

\* connect returned Ok: sleep 5 s (laserstream.rs:16-19)
LsConnectOk ==
    /\ procState = "running"
    /\ subs.ls.pc = "connect"
    /\ valid_uri(config.laserstream_grpc_url)
    /\ subs' = [subs EXCEPT !.ls.pc = "idle", !.ls.slept = LsConnectedSleep]
    /\ subsUnchanged

\* connect returned Err: warn, then sleep(backoff) (laserstream.rs:20-22)
LsConnectErr ==
    /\ procState = "running"
    /\ subs.ls.pc = "connect"
    /\ valid_uri(config.laserstream_grpc_url)
    /\ subs.ls.failures < MaxFailures
    /\ subs' = [subs EXCEPT !.ls.pc = "sleep", !.ls.failures = @ + 1,
                            !.ls.slept = subs.ls.backoff]
    /\ subsUnchanged

\* the sleep after a connection is over: connect again
LsIdleWake ==
    /\ procState = "running"
    /\ subs.ls.pc = "idle"
    /\ subs' = [subs EXCEPT !.ls.pc = "connect"]
    /\ subsUnchanged

\* the sleep after a failure is over: backoff grows (laserstream.rs:23)
LsWake ==
    /\ procState = "running"
    /\ subs.ls.pc = "sleep"
    /\ subs' = [subs EXCEPT !.ls.pc = "connect",
                            !.ls.backoff =
                                next_backoff(@, LsStep, LsBackoffMax)]
    /\ subsUnchanged

\* the receiver is dropped: main has left its loop (main.rs:62-64)
RxDrop ==
    /\ subs.rx = "open"
    /\ subs' = [subs EXCEPT !.rx = "dropped"]
    /\ subsUnchanged

SubscribersNext ==
    \/ WsConnectOk \/ WsConnectErr
    \/ WsText("M1", "D1")
    \/ WsSendFailed
    \/ \E kind \in WsIgnoredKinds : WsIgnored(kind)
    \/ \E kind \in WsBreakKinds : WsBroken(kind)
    \/ WsWake
    \/ LsInvalidUri \/ LsConnectOk \/ LsConnectErr \/ LsIdleWake \/ LsWake
    \/ RxDrop

SpecSubscribers ==
    /\ SubscribersInit /\ [][SubscribersNext]_vars
    /\ WF_vars(WsWake) /\ WF_vars(LsWake) /\ WF_vars(LsIdleWake)

\* C13: each subscriber's backoff starts at its seed, 500 ms for WebSocket
\* and 250 ms for gRPC, grows by the seed after each failure up to 5 s, and
\* is never reset or decreased: seed <= backoff <= 5 s, and the k-th
\* failure sleeps min(k * seed, 5 s).  A failure is a pass through the
\* backoff sleep: a failed connect, and for WebSocket also a connection
\* that ended.
C13_LinearBackoff ==
    /\ 500 <= subs.ws.backoff /\ subs.ws.backoff <= 5000
    /\ 250 <= subs.ls.backoff /\ subs.ls.backoff <= 5000
    /\ subs.ws.backoff =
          Min(500 * (subs.ws.failures + IF subs.ws.pc = "sleep" THEN 0 ELSE 1),
              5000)
    /\ subs.ls.backoff =
          Min(250 * (subs.ls.failures + IF subs.ls.pc = "sleep" THEN 0 ELSE 1),
              5000)
    /\ subs.ws.pc = "sleep" => subs.ws.slept = Min(500 * subs.ws.failures, 5000)
    /\ subs.ls.pc = "sleep" => subs.ls.slept = Min(250 * subs.ls.failures, 5000)

\* C13 witness: both subscribers sleep 5 s, WebSocket after its 11th failure
\* and gRPC after its 21st.
C13_Witness ==
    /\ subs.ws.pc = "sleep" /\ subs.ws.failures = 11 /\ subs.ws.slept = 5000
    /\ subs.ls.pc = "sleep" /\ subs.ls.failures = 21 /\ subs.ls.slept = 5000

WsTransient == WsIgnoredKinds \cup WsBreakKinds \cup {"connect_failed"}

\* C14: a subscriber task ends only when a send into the queue has failed
\* because the receiver is gone, and then at once; no connect failure,
\* socket error, close frame or undecodable message ends it: it reads on or
\* sleeps, and a sleep is followed by a new connect.
C14_ExitOnlyOnSendFailure ==
    /\ [][/\ (subs.ws.pc # "exited" /\ subs'.ws.pc = "exited") =>
                /\ subs.ws.pc = "connected"
                /\ subs.rx = "dropped"
                /\ subs'.ws.last = "send_failed"
          /\ (subs'.ws # subs.ws /\ subs'.ws.last = "send_failed") =>
                subs'.ws.pc = "exited"
          /\ (/\ subs.ws.pc \in {"connect", "connected"}
              /\ subs'.ws # subs.ws
              /\ subs'.ws.last \in WsTransient) =>
                subs'.ws.pc \in {"connected", "sleep"}
          /\ subs.ws.pc = "sleep" => subs'.ws.pc \in {"sleep", "connect"}
          /\ subs.ls.pc \in {"sleep", "idle"} =>
                subs'.ls.pc \in {subs.ls.pc, "connect"}
          /\ (subs.ls.pc # "failed" /\ subs'.ls.pc = "failed") =>
                ~valid_uri(config.laserstream_grpc_url)
          /\ subs'.ls.pc # "exited"]_vars
    /\ (subs.ws.pc = "sleep") ~> (subs.ws.pc = "connect")
    /\ (subs.ls.pc = "sleep") ~> (subs.ls.pc = "connect")

\* C14 witness: after connection failures, the WebSocket task ended on a
\* failed send, while the gRPC task sleeps after a failed connect.
C14_Witness ==
    /\ subs.ws.pc = "exited"
    /\ subs.ws.failures >= 2
    /\ subs.rx = "dropped"
    /\ subs.ls.pc = "sleep"

----------------------------------------------------------------------------
(* SpecLoop: main's loop over the queue with the blockhash refresher, the  *)
(* subscriber's sends and the dispatch paths, the wallet left at           *)
(* BalanceCache::new(0).  A launched path ends, and a main task that has a *)
(* path ready is polled: the fairness of the runtime.                      *)

\* dry-run with the RPC path alone, and live with one, two and three paths
LoopConfigs ==
    {[BaseConfig EXCEPT !.dry_run = Some(TRUE)]}
    \cup {[BaseConfig EXCEPT !.jito_api_url = e[1], !.nozomi_rpc_url = e[2]] :
              e \in {<<None, None>>, <<Some("jito"), None>>,
                      <<Some("jito"), Some("nozomi")>>}}

\* the events the subscriber parses in SpecLoop: two mints of one developer
LoopEvents == {<<"M1", "D1">>, <<"M2", "D1">>}

LoopInit ==
    /\ config \in LoopConfigs
    /\ limParams = NoLimParams
    /\ InitState /\ InitMain /\ InitHistory

LoopNext ==
    \/ Tick
    \/ BhFetchOk \/ BhNotify
    \/ \E e \in LoopEvents : WsSend(e[1], e[2])
    \/ MainFilter \/ MainBuild
    \/ \E p \in {"rpc", "jito", "nozomi"}, r \in {"ok", "err"} : PathDone(p, r)
    \/ DispatchPoll

SpecLoop ==
    /\ LoopInit /\ [][LoopNext]_vars
    /\ WF_vars(DispatchPoll)
    /\ \A p \in {"rpc", "jito", "nozomi"} :
          WF_vars(PathDone(p, "ok") \/ PathDone(p, "err"))

\* C21: the main loop handles one event at a time.  An event is taken from
\* the queue only when handle_event of the one before has returned: no
\* event is held, no path is launched.  While an event is held it is the
\* last one taken; the paths in flight are those of one fan-out of that
\* event; and the filter state (seen_mints, the limiter's timestamps, the
\* verdict) changes only in the step that takes an event, for that event.
C21_OneEventAtATime ==
    [][/\ handled' # handled =>
             /\ mainPc = "recv" /\ event = None /\ inner = <<>>
             /\ \A p \in DOMAIN pathState : pathState[p] = "idle"
             /\ handled' = Append(handled, Head(queue))
             /\ filt'[1].event = Head(queue)
             /\ seen_mints' \subseteq seen_mints \cup {Head(queue).mint}
       /\ (seen_mints' # seen_mints \/ counts' # counts \/ filt' # filt) =>
             handled' # handled
       /\ mainPc' \in {"build", "dispatch"} =>
             /\ event' # None
             /\ event'[1] = handled'[Len(handled')]
       /\ mainPc' = "recv" => event' = None
       /\ (\E p \in DOMAIN pathState : pathState'[p] # "idle") =>
             /\ mainPc' = "dispatch"
             /\ \A i, j \in 1..Len(inner') : inner'[i] = inner'[j] => i = j
             /\ \A p \in DOMAIN pathState :
                   pathState'[p] # "idle" =>
                      /\ \E i \in 1..Len(inner') : inner'[i] = p
                      /\ \E i \in 1..Len(launched(config)) :
                            launched(config)[i] = p]_vars

\* C21 witness: a second event waits in the queue while the paths of the
\* first are in flight, one of them already succeeded.
C21_Witness ==
    /\ mainPc = "dispatch"
    /\ Len(handled) = 1
    /\ queue # <<>>
    /\ \E p \in DOMAIN pathState : pathState[p] = "pending"
    /\ \E p \in DOMAIN pathState : pathState[p] = "ok"

\* C22: an Allowed event for which no transaction is submitted stays
\* recorded.  handle_event returns without a dispatch exactly when the
\* blockhash cache is empty or dry-run is on, and that return leaves
\* seen_mints and the limiter's timestamps as they are: the mint is in
\* seen_mints and the timestamp of its Allowed call is in the developer's
\* list.  seen_mints never loses a mint and the timestamps change only in a
\* later filter call, so every later event for the mint gets Duplicate,
\* whatever the blockhash cache holds by then.
C22_NoTransactionKeepsRecord ==
    [][/\ (mainPc = "build" /\ mainPc' = "recv") =>
             /\ blockhash = None \/ dry_run(config)
             /\ tx' = None /\ result' = result /\ inner' = <<>>
             /\ balance' = balance
             /\ seen_mints' = seen_mints
             /\ counts' = counts
             /\ event[1].mint \in seen_mints'
             /\ \E i \in 1..Len(counts'[event[1].developer]) :
                   counts'[event[1].developer][i] = filt[1].t
       /\ (mainPc = "build" /\ (blockhash = None \/ dry_run(config))) =>
             mainPc' \in {"build", "recv"}
       /\ seen_mints \subseteq seen_mints'
       /\ counts' # counts => handled' # handled
       /\ (handled' # handled /\ Head(queue).mint \in seen_mints) =>
             /\ filt'[1].decision = "Duplicate"
             /\ mainPc' = "recv"
             /\ counts' = counts]_vars

\* C22 witness: with dry-run off, the first event of a mint was Allowed
\* while the blockhash cache was empty, so nothing was dispatched; the cache
\* has been filled since and a second event for the mint got Duplicate.
C22_Witness ==
    /\ ~dry_run(config)
    /\ mainPc = "recv" /\ result = None
    /\ blockhash # None
    /\ Len(handled) = 2
    /\ handled[1].mint = handled[2].mint
    /\ filt[1].event = handled[2]
    /\ filt[1].decision = "Duplicate"
    /\ allowed[handled[1].mint] = 1

\* C22, dry-run: the same with a filled cache and dry-run on.
C22_WitnessDryRun ==
    /\ dry_run(config)
    /\ mainPc = "recv" /\ result = None
    /\ blockhash # None /\ filt # None
    /\ filt[1].decision = "Duplicate"
    /\ Len(handled) = 2
    /\ now > 0

\* C23: dispatch_transaction returns at the first poll that finds a
\* launched path succeeded, whatever the other paths do, and returns an error
\* only when no launched path is left that is pending or succeeded.  While
\* it has not returned the main loop takes no event.  Once a launched path
\* has succeeded the return needs no other path to end.  With every
\* launched path ending and the main task polled when a path is ready, a
\* dispatch that has begun returns.
C23_DispatchReturns ==
    /\ [][/\ (mainPc = "dispatch" /\ inner' # inner /\
                \E i \in 1..Len(inner) : pathState[inner[i]] = "ok") =>
                 /\ mainPc' = "recv"
                 /\ result'[1].ok
          /\ (mainPc = "dispatch" /\ mainPc' = "recv") =>
                 /\ result' # None
                 /\ result'[1].ok => pathState[result'[1].who] = "ok"
                 /\ ~result'[1].ok =>
                       /\ \A p \in DOMAIN pathState :
                             pathState[p] \in {"err", "idle"}
                       /\ \A i \in 1..Len(inner) : pathState[inner[i]] = "err"
                       /\ pathState[result'[1].who] = "err"
          /\ (mainPc = "dispatch" /\ inner' # inner /\ mainPc' = "dispatch") =>
                 /\ \A i \in 1..Len(inner) : pathState[inner[i]] # "ok"
                 /\ \E i \in 1..Len(inner) : pathState[inner[i]] = "pending"
                 /\ \A i \in 1..Len(inner') : pathState[inner'[i]] = "pending"
          /\ mainPc = "dispatch" =>
                 /\ handled' = handled
                 /\ seen_mints' = seen_mints /\ counts' = counts
                 /\ event' \in {event, None}
                 /\ Len(queue') >= Len(queue)]_vars
    /\ [](/\ mainPc = "dispatch"
          /\ \E i \in 1..Len(inner) : pathState[inner[i]] = "ok"
          => ENABLED (DispatchPoll /\ mainPc' = "recv" /\ result'[1].ok))
    /\ (mainPc = "dispatch") ~> (mainPc = "recv")

\* C23 witness: the path launched second has succeeded while the first and
\* the third are still pending, with an event waiting in the queue: the
\* poll of this state returns Ok.
C23_Witness ==
    /\ mainPc = "dispatch"
    /\ inner = <<"rpc", "jito", "nozomi">>
    /\ pathState["jito"] = "ok"
    /\ pathState["rpc"] = "pending" /\ pathState["nozomi"] = "pending"
    /\ queue # <<>>

\* C23: a dispatch has returned an error, with three paths launched.
C23_WitnessAllFailed ==
    /\ mainPc = "recv"
    /\ result # None /\ ~result[1].ok
    /\ Len(launched(config)) = 3

----------------------------------------------------------------------------
(* SpecSupervisor: EventSupervisor::start with either endpoint configured  *)
(* or not, the subscriber tasks, and main's loop up to its return, dry-run *)
(* on.                                                                     *)

SupervisorConfigs ==
    {[BaseConfig EXCEPT !.dry_run = Some(TRUE), !.purchase_strategy = st,
                        !.ws_url = e[1], !.laserstream_grpc_url = e[2]] :
        st \in Strategies,
        e \in {<<None, None>>, <<Some("ws"), None>>, <<None, Some("grpc")>>,
                <<None, Some("not a uri")>>, <<Some("ws"), Some("not a uri")>>}}

SupervisorInit ==
    /\ config \in SupervisorConfigs
    /\ limParams = NoLimParams
    /\ InitState /\ InitMain /\ InitHistory

\* receiver.recv() yields None: the loop ends, main returns Ok(()) and the
\* receiver is dropped (main.rs:52, 64)
MainClosed ==
    /\ procState = "running"
    /\ at_recv(mainPc)
    /\ is_closed(queue, subs)
    /\ procState' = "exited"
    /\ mainPc' = "returned"
    /\ subs' = [subs EXCEPT !.rx = "dropped"]
    /\ UNCHANGED <<cfgVars, filterVars, now, balVars, bhVars, queue, event,
                   spend, tx, produced, dispVars, reader, pushed, handled>>

SupervisorNext ==
    \/ WsConnectOk \/ WsConnectErr
    \/ WsText("M1", "D1")
    \/ \E kind \in WsBreakKinds : WsBroken(kind)
    \/ WsWake
    \/ LsInvalidUri \/ LsConnectOk \/ LsConnectErr \/ LsIdleWake \/ LsWake
    \/ MainFilter \/ MainBuild
    \/ MainClosed

SpecSupervisor ==
    /\ SupervisorInit /\ [][SupervisorNext]_vars
    /\ WF_vars(MainClosed)

\* C24: the main loop ends exactly when the event queue is closed, that is
\* when no subscriber holds a sender: main has returned only with the queue
\* closed, and then with Ok(()); it has not returned while a subscriber
\* runs; and with no endpoint configured no event is ever sent or handled.
C24_EndsExactlyOnClosure ==
    /\ mainPc = "returned" => (is_closed(queue, subs) /\ procState = "exited")
    /\ senders(subs) > 0 => mainPc # "returned"
    /\ (config.ws_url = None /\ config.laserstream_grpc_url = None) =>
          (pushed = <<>> /\ handled = <<>>)

\* C24, the part the code keeps: main returns Ok(()) only from recv with
\* the queue closed, and a closed queue makes it return; a subscriber that
\* runs keeps the queue open; with no endpoint configured the queue is
\* closed from the start and no event is handled.
C24_NormalExitOnClosure ==
    /\ [][procState' = "exited" =>
             /\ mainPc' = "returned"
             /\ handled' = handled
             /\ senders(subs') = 0 /\ queue' = <<>>
             /\ produced' = Len(handled')]_vars
    /\ [](senders(subs) > 0 => procState # "exited")
    /\ []((config.ws_url = None /\ config.laserstream_grpc_url = None) =>
            (senders(subs) = 0 /\ pushed = <<>> /\ handled = <<>>
             /\ procState \in {"running", "exited"}))
    /\ [](subs.ws.pc \notin {"exited"})
    /\ (senders(subs) = 0) ~> (procState = "exited")

\* C24: main returned Ok(()) with no endpoint configured.
C24_WitnessNoSource ==
    /\ config.ws_url = None /\ config.laserstream_grpc_url = None
    /\ procState = "exited"

\* C24: main returned Ok(()) after the gRPC task, the only one configured,
\* ended on its endpoint.
C24_WitnessTaskEnded ==
    /\ config.laserstream_grpc_url # None
    /\ subs.ls.pc = "failed"
    /\ procState = "exited"

\* C24: main has returned an error while the WebSocket task runs and an
\* event waits in the queue.
C24_WitnessErrorExit ==
    /\ procState = "failed" /\ mainPc = "returned"
    /\ subs.ws.pc = "connected"
    /\ queue # <<>>

====
